---- MODULE Spec2Model ----
(***************************************************************************)
(* Model of src/app.py (Whisper transcription web app, Streamlit).         *)
(*                                                                         *)
(*  Spec       the script run started by the "start" button: model load    *)
(*             through the st.cache_resource cache, the per-file batch     *)
(*             loop, and the result presenter (tabs and combined export).  *)
(*  SpecProbe  check_ffmpeg, the probe of the external decoder.            *)
(*  SpecFmt    the timestamp formatting of a segment list, on its own,     *)
(*             over a wider set of times than Spec uses.                   *)
(*                                                                         *)
(* A time is an elapsed time in whole microseconds, kept as seconds and    *)
(* microseconds ([sec, usec]) because it passes 2^31; NaN is the float     *)
(* that datetime.utcfromtimestamp rejects.                                 *)
(***************************************************************************)
EXTENDS Integers, Sequences, FiniteSets, TLC

\* ------------------------------------------------------------ bounds
MaxItems == 2
MaxBatches == 2
MaxProbes == 3

\* ------------------------------------------------------------ input sets
Models == {"tiny", "base"}
Names == {"a.mp3", "b.wav"}
None == "None"
NoHandle == <<>>
NoOutcome == [kind |-> "none", text |-> "", segments |-> <<>>]
NoTimestamp == [filename |-> None, timestamp_text |-> None]
NoCombined == [offered |-> FALSE, text |-> "", timestamp_text |-> ""]

T(s, u) == [nan |-> FALSE, sec |-> s, usec |-> u]
NaN == [nan |-> TRUE, sec |-> 0, usec |-> 0]
Seg(s, e, x) == [start |-> s, end |-> e, text |-> x]

S1 == Seg(T(1, 500000), T(3, 250000), "hi")
S2 == Seg(T(3, 250000), T(59, 999999), "yo")
SBad == Seg(NaN, T(1, 0), "hi")


\* times and segment lists of SpecFmt (the day boundary is at 86400 s)
FmtTimes ==
  {T(0, 0), T(1, 500000), T(3, 250000), T(59, 999999), T(3599, 1999),
   T(3600, 0), T(86399, 999999), T(86400, 0), T(90061, 1500), T(359999, 123456)}
TimeLE(a, b) == a.sec < b.sec \/ (a.sec = b.sec /\ a.usec <= b.usec)
FmtSegs ==
  UNION {{Seg(s, e, "hi") : e \in {x \in FmtTimes : TimeLE(s, x)}} : s \in FmtTimes}
SLast == Seg(T(359999, 123456), T(359999, 999999), "yo")
FmtSegLists == {<<a>> : a \in FmtSegs} \cup {<<a, SLast>> : a \in FmtSegs}

\* what the decoder probe meets: the launch of `ffmpeg -version` from the search
\* path, whether the Chocolatey executable exists, and its launch
RunOutcomes == {"exit0", "nonzero", "raises"}
ProbeEnvs ==
  {[default |-> d, exists |-> e, fallback |-> f] :
     d \in RunOutcomes, e \in BOOLEAN, f \in RunOutcomes}
NoProbe == [default |-> None, exists |-> FALSE, fallback |-> None]
ChocoDir == "C:\\ProgramData\\chocolatey\\bin"

\* ------------------------------------------------------------ formatting
Digits == <<"0", "1", "2", "3", "4", "5", "6", "7", "8", "9">>
Digit(d) == Digits[d + 1]

RECURSIVE Join(_)
Join(ss) == IF ss = <<>> THEN "" ELSE Head(ss) \o Join(Tail(ss))

\* %H, %M, %S: two digits, zero padded
Pad2(n) == Digit((n \div 10) % 10) \o Digit(n % 10)

\* %f: the six digits of the microsecond field
MicroDigits(u) ==
  <<Digit((u \div 100000) % 10), Digit((u \div 10000) % 10), Digit((u \div 1000) % 10),
    Digit((u \div 100) % 10), Digit((u \div 10) % 10), Digit(u % 10)>>

\* datetime.utcfromtimestamp(t): the calendar time t seconds after the epoch;
\* its hour is the hour of the day
UtcHour(t) == (t.sec \div 3600) % 24
UtcMinute(t) == (t.sec \div 60) % 60
UtcSecond(t) == t.sec % 60

\* utcfromtimestamp raises ValueError on a NaN
TimeRaises(t) == t.nan

\* str(datetime.utcfromtimestamp(t).strftime('%H:%M:%S.%f'))[:-3]
FormatTime(t) ==
  LET full == <<Pad2(UtcHour(t)), ":", Pad2(UtcMinute(t)), ":", Pad2(UtcSecond(t)), ".">>
                 \o MicroDigits(t.usec)
  IN  Join(SubSeq(full, 1, Len(full) - 3))

\* f"[{start_formatted} --> {end_formatted}] {text}\n"
FormatLine(seg) ==
  "[" \o FormatTime(seg.start) \o " --> " \o FormatTime(seg.end) \o "] " \o seg.text \o "\n"

\* the loop over result["segments"] raises at the first segment with a bad time
FormatRaises(segs) ==
  \E i \in 1..Len(segs) : TimeRaises(segs[i].start) \/ TimeRaises(segs[i].end)

RECURSIVE TimestampText(_)
TimestampText(segs) ==
  IF segs = <<>> THEN "" ELSE FormatLine(Head(segs)) \o TimestampText(Tail(segs))

VARIABLES
  pc, batchNo, uploaded_files, model_option, cache, loaded, returned, model, idx,
  tempFiles, calls, outcome, all_results, all_timestamps, errors, abortCause,
  tabs, combined,
  envPath, probeRuns, probeEnv, probeRet,
  fmtSegs, fmtOut

batchVars == <<uploaded_files, model_option, model, idx, calls, outcome,
               all_results, all_timestamps, errors, abortCause, tabs, combined>>
mainVars == <<pc, batchNo, cache, loaded, returned, tempFiles, batchVars>>
probeVars == <<envPath, probeRuns, probeEnv, probeRet>>
fmtVars == <<fmtSegs, fmtOut>>
vars == <<mainVars, probeVars, fmtVars>>

Init ==
  /\ pc = "idle"
  /\ batchNo = 0
  /\ uploaded_files = <<>>
  /\ model_option = "base"
  /\ cache = [m \in Models |-> NoHandle]
  /\ loaded = [m \in Models |-> <<>>]
  /\ returned = [m \in Models |-> <<>>]
  /\ model = NoHandle
  /\ idx = 1
  /\ tempFiles = {}
  /\ calls = <<>>
  /\ outcome = <<>>
  /\ all_results = <<>>
  /\ all_timestamps = <<>>
  /\ errors = <<>>
  /\ abortCause = None
  /\ tabs = <<>>
  /\ combined = NoCombined
  /\ envPath = <<"sys">>
  /\ probeRuns = 0
  /\ probeEnv = NoProbe
  /\ probeRet = FALSE
  /\ fmtSegs = <<>>
  /\ fmtOut = ""

\* ------------------------------------------------------------ model provider
\* (a lookup that never finds the stored entry)
CacheLookupMiss(c, m) == NoHandle

\* the st.cache_resource lookup of load_whisper_model: the entry stored for the
\* argument, or none
CacheLookup(c, m) == c[m]

\* the handle whisper.load_model returns: a new object at every call
NewHandle(m) == <<m, Len(loaded[m]) + 1>>

\* the non-empty upload lists
UploadLists == UNION {[1..n -> Names] : n \in 1..MaxItems}

\* what model.transcribe does for one file: raises, or returns text and segments
Returned(x, ss) == [kind |-> "ok", text |-> x, segments |-> ss]
TranscribeOutcomes ==
  {[kind |-> "raise", text |-> "", segments |-> <<>>],
   Returned("Hello", <<S1>>), Returned("World", <<S1, S2>>), Returned("Hello", <<SBad>>)}

\* NamedTemporaryFile(delete=False) and tmp_file.write: both succeed, the
\* creation raises, or the file is created and the write raises
PersistOutcomes == {"ok", "create_fail", "write_fail"}

TempOf(b, i) == [batch |-> b, item |-> i]

\* where the loop goes after item i of n
AfterItem(i, n) == IF i < n THEN "persist" ELSE "present"

\* (a caught error that ends the loop, as a break in the except clause would)
AfterCaughtErrorBreak(i, n) == "present"

\* an error of transcribe or of the result building is caught by the except
\* clause of the item: the loop goes on
AfterCaughtError(i, n) == AfterItem(i, n)

\* (a write error that is swallowed, as if the with block were inside the try)
AfterPersistErrorSwallowed(i, n) == AfterItem(i, n)

\* an error of the with block that writes the temporary file is outside the
\* try: it leaves main
AfterPersistError(i, n) == "aborted"

\* (insert(0, file_result) in place of append)
PrependResult(rs, r) == <<r>> \o rs

\* all_results.append(file_result)
AppendResult(rs, r) == Append(rs, r)

\* button pressed with files uploaded: the model is loaded (once per
\* identifier, by the cache) and the batch state is set up
StartBatch ==
  /\ pc \in {"idle", "done", "aborted"}
  /\ batchNo < MaxBatches
  /\ \E files \in UploadLists, m \in Models, loadOk \in BOOLEAN :
       /\ batchNo' = batchNo + 1
       /\ uploaded_files' = files
       /\ model_option' = m
       /\ idx' = 1
       /\ calls' = [i \in 1..Len(files) |-> 0]
       /\ outcome' = [i \in 1..Len(files) |-> NoOutcome]
       /\ all_results' = <<>>
       /\ all_timestamps' = <<>>
       /\ errors' = <<>>
       /\ tabs' = <<>>
       /\ combined' = NoCombined
       /\ IF CacheLookup(cache, m) # NoHandle
          THEN /\ loadOk
               /\ model' = CacheLookup(cache, m)
               /\ returned' = [returned EXCEPT ![m] = Append(@, CacheLookup(cache, m))]
               /\ UNCHANGED <<cache, loaded>>
               /\ pc' = "persist"
               /\ abortCause' = None
          ELSE IF loadOk
          THEN /\ loaded' = [loaded EXCEPT ![m] = Append(@, NewHandle(m))]
               /\ cache' = [cache EXCEPT ![m] = NewHandle(m)]
               /\ model' = NewHandle(m)
               /\ returned' = [returned EXCEPT ![m] = Append(@, NewHandle(m))]
               /\ pc' = "persist"
               /\ abortCause' = None
          ELSE /\ UNCHANGED <<cache, loaded, returned>>
               /\ model' = NoHandle
               /\ pc' = "aborted"
               /\ abortCause' = "load"
  /\ UNCHANGED <<tempFiles, probeVars, fmtVars>>

\* the head of one loop iteration: the bytes are written to a temporary file
PersistItem ==
  /\ pc = "persist"
  /\ \E p \in PersistOutcomes :
       /\ tempFiles' = IF p = "create_fail" THEN tempFiles
                       ELSE tempFiles \cup {TempOf(batchNo, idx)}
       /\ IF p = "ok"
          THEN pc' = "transcribe" /\ abortCause' = None
          ELSE /\ pc' = AfterPersistError(idx, Len(uploaded_files))
               /\ abortCause' = "persist"
  /\ UNCHANGED <<batchNo, cache, loaded, returned, uploaded_files, model_option, model, idx,
                 calls, outcome, all_results, all_timestamps, errors, tabs, combined,
                 probeVars, fmtVars>>

\* the try / except / finally of one loop iteration
TranscribeItem ==
  /\ pc = "transcribe"
  /\ \E r \in TranscribeOutcomes :
       LET name == uploaded_files[idx]
           n == Len(uploaded_files)
           file_result == [filename |-> name, text |-> r.text, segments |-> r.segments]
       IN  /\ calls' = [calls EXCEPT ![idx] = @ + 1]
           /\ outcome' = [outcome EXCEPT ![idx] = r]
           /\ IF r.kind = "raise"
              THEN /\ errors' = Append(errors, name)
                   /\ UNCHANGED <<all_results, all_timestamps>>
                   /\ pc' = AfterCaughtError(idx, n)
              ELSE /\ all_results' = AppendResult(all_results, file_result)
                   /\ IF FormatRaises(r.segments)
                      THEN /\ errors' = Append(errors, name)
                           /\ UNCHANGED all_timestamps
                           /\ pc' = AfterCaughtError(idx, n)
                      ELSE /\ all_timestamps' =
                                Append(all_timestamps,
                                       [filename |-> name,
                                        timestamp_text |-> TimestampText(r.segments)])
                           /\ UNCHANGED errors
                           /\ pc' = AfterItem(idx, n)
           /\ tempFiles' = tempFiles \ {TempOf(batchNo, idx)}
           /\ idx' = idx + 1
  /\ UNCHANGED <<batchNo, cache, loaded, returned, uploaded_files, model_option, model,
                 abortCause, tabs, combined, probeVars, fmtVars>>

\* ------------------------------------------------------------ presenter
\* next((t for t in all_timestamps if t["filename"] == name), None)
RECURSIVE FindTimestamp(_, _)
FindTimestamp(ts, name) ==
  IF ts = <<>> THEN NoTimestamp
  ELSE IF Head(ts).filename = name THEN Head(ts)
  ELSE FindTimestamp(Tail(ts), name)

\* the widget keys of a tab are built from the filename alone
\* (key=f"text_{result['filename']}"): Streamlit raises on a key already used
KeyClash(rs, i) == \E j \in 1..(i - 1) : rs[j].filename = rs[i].filename

\* the tabs rendered in full: all of them, or those before the first key clash
RenderedCount(rs) ==
  IF \E i \in 1..Len(rs) : KeyClash(rs, i)
  THEN (CHOOSE i \in 1..Len(rs) : KeyClash(rs, i) /\ \A j \in 1..(i - 1) : ~KeyClash(rs, j)) - 1
  ELSE Len(rs)

\* what one tab shows: the text area, and the timestamped text of the expander
TabOf(r, ts) ==
  LET timestamp_data == FindTimestamp(ts, r.filename)
  IN  [filename |-> r.filename,
       text |-> r.text,
       timestamp_text |-> IF timestamp_data = NoTimestamp THEN None
                          ELSE timestamp_data.timestamp_text]

\* if len(all_results) > 1
OffersCombined(n) == n > 1

\* (combined_text assigned with = where the code has +=: only the last block)
CombinedTextLast(rs) ==
  IF rs = <<>> THEN ""
  ELSE "=== " \o rs[Len(rs)].filename \o " ===\n\n" \o rs[Len(rs)].text \o "\n\n"

RECURSIVE CombinedText(_)
CombinedText(rs) ==
  IF rs = <<>> THEN ""
  ELSE "=== " \o Head(rs).filename \o " ===\n\n" \o Head(rs).text \o "\n\n"
         \o CombinedText(Tail(rs))

RECURSIVE CombinedTimestampText(_, _)
CombinedTimestampText(rs, ts) ==
  IF rs = <<>> THEN ""
  ELSE LET timestamp_data == FindTimestamp(ts, Head(rs).filename)
       IN  (IF timestamp_data = NoTimestamp THEN ""
            ELSE "=== " \o Head(rs).filename \o " ===\n\n"
                   \o timestamp_data.timestamp_text \o "\n\n")
             \o CombinedTimestampText(Tail(rs), ts)

\* after the loop: the tabs, then the combined downloads
Present ==
  /\ pc = "present"
  /\ IF all_results = <<>>
     THEN \* st.tabs([]) raises
          /\ pc' = "aborted"
          /\ abortCause' = "tabs"
          /\ UNCHANGED <<tabs, combined>>
     ELSE LET k == RenderedCount(all_results)
          IN  /\ tabs' = [i \in 1..k |-> TabOf(all_results[i], all_timestamps)]
              /\ IF k < Len(all_results)
                 THEN /\ pc' = "aborted"
                      /\ abortCause' = "widget_key"
                      /\ UNCHANGED combined
                 ELSE /\ pc' = "done"
                      /\ UNCHANGED abortCause
                      /\ combined' =
                           IF OffersCombined(Len(all_results))
                           THEN [offered |-> TRUE,
                                 text |-> CombinedText(all_results),
                                 timestamp_text |->
                                   CombinedTimestampText(all_results, all_timestamps)]
                           ELSE NoCombined
  /\ UNCHANGED <<batchNo, cache, loaded, returned, tempFiles, uploaded_files, model_option, model,
                 idx, calls, outcome, all_results, all_timestamps, errors,
                 probeVars, fmtVars>>

\* ------------------------------------------------------------ decoder probe
\* check_ffmpeg: its return value
CheckReturn(e) ==
  IF e.default = "raises" THEN FALSE
  ELSE IF e.default = "exit0" THEN TRUE
  ELSE e.exists /\ e.fallback = "exit0"

\* check_ffmpeg: os.environ['PATH'] after it
CheckPath(e, path) ==
  IF e.default = "nonzero" /\ e.exists /\ e.fallback = "exit0"
  THEN <<ChocoDir>> \o path
  ELSE path

CheckFfmpeg ==
  /\ probeRuns < MaxProbes
  /\ \E e \in ProbeEnvs :
       /\ probeEnv' = e
       /\ probeRet' = CheckReturn(e)
       /\ envPath' = CheckPath(e, envPath)
  /\ probeRuns' = probeRuns + 1
  /\ UNCHANGED <<mainVars, fmtVars>>

NextProbe == CheckFfmpeg

SpecProbe == Init /\ [][NextProbe]_vars

\* ------------------------------------------------------------ formatting alone
\* the timestamp loop of one result, over the segment lists of FmtSegLists
FormatSegments ==
  /\ \E ss \in FmtSegLists :
       /\ fmtSegs' = ss
       /\ fmtOut' = TimestampText(ss)
  /\ UNCHANGED <<mainVars, probeVars>>

NextFmt == FormatSegments

SpecFmt == Init /\ [][NextFmt]_vars

Next == StartBatch \/ PersistItem \/ TranscribeItem \/ Present

Spec == Init /\ [][Next]_vars

\* ------------------------------------------------------------ claims
\* the items whose transcribe call has returned, in input order
OkIdx == SelectSeq([i \in 1..Len(outcome) |-> i], LAMBDA i : outcome[i].kind = "ok")

\* the presenter has been reached: the loop ran over every item
LoopFinished ==
  \/ pc \in {"present", "done"}
  \/ pc = "aborted" /\ abortCause \in {"tabs", "widget_key"}

\* C1: the result sequence holds exactly one result for each item whose
\* transcription returned and none for any other item, in input order: result k
\* carries the filename, text and segments of the k-th such item.
C1_ResultsAreSuccessesInOrder ==
  /\ Len(all_results) = Len(OkIdx)
  /\ \A k \in 1..Len(all_results) :
       /\ all_results[k].filename = uploaded_files[OkIdx[k]]
       /\ all_results[k].text = outcome[OkIdx[k]].text
       /\ all_results[k].segments = outcome[OkIdx[k]].segments

C1_Witness ==
  /\ pc = "present"
  /\ Len(uploaded_files) = 2
  /\ outcome[1].kind = "raise"
  /\ outcome[2].kind = "ok"
  /\ Len(all_results) = 1
  /\ all_results[1].filename = uploaded_files[2]

C2_Once ==
  /\ \A k \in 1..Len(uploaded_files) :
       /\ calls[k] <= 1
       /\ outcome[k].kind = "raise" => calls[k] = 1
  /\ LoopFinished => \A k \in 1..Len(uploaded_files) : calls[k] = 1

C2_Step ==
  (pc = "transcribe" /\ outcome'[idx].kind = "raise") =>
    /\ all_results' = all_results
    /\ all_timestamps' = all_timestamps
    /\ errors' = Append(errors, uploaded_files[idx])
    /\ calls'[idx] = 1
    /\ idx' = idx + 1
    /\ pc' = IF idx < Len(uploaded_files) THEN "persist" ELSE "present"

\* C2: when transcribe raises for item k, the step records no result and no
\* timestamped transcript, emits one error naming the file, and goes on to item
\* k+1 (or to the presenter after the last item); transcribe is called at most
\* once per item, and exactly once for every item when the loop has finished.
C2_FailureIsLocal == []C2_Once /\ [][C2_Step]_vars

C2_Witness ==
  /\ pc = "done"
  /\ Len(uploaded_files) = 2
  /\ outcome[1].kind = "raise"
  /\ errors = <<uploaded_files[1]>>
  /\ calls[2] = 1
  /\ Len(all_results) = 1

\* C3: the temporary file of an item exists only while that item is being
\* transcribed: none is left when the loop has finished or was aborted, and no
\* two exist together.
C3_NoTempFileLeft ==
  IF pc = "transcribe" THEN tempFiles = {TempOf(batchNo, idx)} ELSE tempFiles = {}

\* C4: at most one load completes per identifier; its handle is the cache
\* entry from then on (no later load of any identifier replaces or evicts it)
\* and is the handle every request for that identifier returns.
C4_OneLoadPerIdentifier ==
  \A m \in Models :
    /\ Len(loaded[m]) <= 1
    /\ loaded[m] = <<>> => cache[m] = NoHandle /\ returned[m] = <<>>
    /\ loaded[m] # <<>> =>
         /\ cache[m] = loaded[m][1]
         /\ \A k \in 1..Len(returned[m]) : returned[m][k] = loaded[m][1]

\* two requests for one identifier: one load, the same handle returned twice
C4_Witness ==
  \E m \in Models :
    /\ Len(returned[m]) = 2
    /\ returned[m][1] = returned[m][2]
    /\ Len(loaded[m]) = 1
    /\ cache[m] = loaded[m][1]

\* C5: when the default candidate is not usable (cannot be launched, or exits
\* non-zero) and the fallback exists and exits 0, the probe returns True with the
\* fallback directory prepended to PATH; in every other case PATH is unchanged.
C5_Step ==
  probeRuns' # probeRuns =>
    IF probeEnv'.default # "exit0" /\ probeEnv'.exists /\ probeEnv'.fallback = "exit0"
    THEN probeRet' = TRUE /\ envPath' = <<ChocoDir>> \o envPath
    ELSE envPath' = envPath

C5_FallbackIsTried == [][C5_Step]_vars

\* elapsed time as hours, minutes, seconds and milliseconds, the hours not
\* reduced modulo 24
ElapsedTime(t) ==
  LET ms == t.usec \div 1000
  IN  Pad2(t.sec \div 3600) \o ":" \o Pad2((t.sec \div 60) % 60) \o ":" \o Pad2(t.sec % 60)
        \o "." \o Digit(ms \div 100) \o Digit((ms \div 10) % 10) \o Digit(ms % 10)

ElapsedLines(segs) ==
  [i \in 1..Len(segs) |->
     "[" \o ElapsedTime(segs[i].start) \o " --> " \o ElapsedTime(segs[i].end) \o "] "
       \o segs[i].text \o "\n"]

\* C6: the timestamped text is one line per segment, in segment order, each
\* time field the elapsed hours, minutes, seconds and milliseconds (truncated),
\* the hour field not rolling over at a day boundary.
C6_ElapsedTimeFormat == fmtOut = Join(ElapsedLines(fmtSegs))

\* the same for the segment lists whose times all lie below 24 hours
C6_Below24h ==
  (\A i \in 1..Len(fmtSegs) : fmtSegs[i].end.sec < 86400) =>
    fmtOut = Join(ElapsedLines(fmtSegs))

\* the block of one successful item in the combined plain-text export
BlockOf(i) == "=== " \o uploaded_files[i] \o " ===\n\n" \o outcome[i].text \o "\n\n"
ExpectedCombined == Join([k \in 1..Len(OkIdx) |-> BlockOf(OkIdx[k])])

C8_AbortSalvagesNothing ==
  /\ abortCause \in {"load", "persist"} =>
       /\ pc = "aborted"
       /\ tabs = <<>>
       /\ ~combined.offered
  /\ abortCause = "load" =>
       /\ \A k \in 1..Len(uploaded_files) : calls[k] = 0
       /\ \A f \in tempFiles : f.batch # batchNo
       /\ all_results = <<>>
  /\ abortCause = "persist" =>
       \A k \in idx..Len(uploaded_files) : calls[k] = 0

C8_Witness ==
  /\ pc = "aborted"
  /\ abortCause = "persist"
  /\ idx = 2
  /\ Len(all_results) = 1
  /\ tabs = <<>>

\* C9: the result sequence and the timestamped sequence have equal length and
\* carry the same filename at every index, after every step.
C9_LockStep ==
  /\ Len(all_results) = Len(all_timestamps)
  /\ \A i \in 1..Len(all_results) : all_results[i].filename = all_timestamps[i].filename

\* C10: the timestamped text shown in the tab of result i, and the one under
\* its header in the combined timestamp export, is the one formatted from the
\* segments of the item result i came from.
OwnTimestampText(i) == TimestampText(outcome[OkIdx[i]].segments)
OwnFormatted(i) == ~FormatRaises(outcome[OkIdx[i]].segments)

C10_OwnTimestamps ==
  /\ \A i \in 1..Len(tabs) :
       tabs[i].timestamp_text # None =>
         OwnFormatted(i) /\ tabs[i].timestamp_text = OwnTimestampText(i)
  /\ combined.offered =>
       combined.timestamp_text =
         Join([i \in 1..Len(all_results) |->
                 IF OwnFormatted(i)
                 THEN "=== " \o all_results[i].filename \o " ===\n\n"
                        \o OwnTimestampText(i) \o "\n\n"
                 ELSE ""])

====
